---- MODULE Spec2Model ----
(***************************************************************************)
(* Verification model of the Capstone-BO-Project notebooks:                *)
(*   - the TuRBO trust-region record (TurboState, update_state),           *)
(*   - candidate generation (generate_batch, next_query_via_TurBO),        *)
(*   - the driver loop over the eight functions,                           *)
(*   - the exploration helper faraway_point.                               *)
(* Real numbers are exact rationals <<n, d>> (d > 0, lowest terms);        *)
(* observed outputs are IEEE-like values: finite integers, +-inf or nan.   *)
(***************************************************************************)
EXTENDS Integers, Sequences, FiniteSets, TLC

VARIABLES
    state,        \* the TurboState record in use
    ret,          \* value returned by the last update_state call
    last,         \* what the last update_state call was given and did
    b0,           \* best_value the record was constructed with
    seen,         \* every observation handed to update_state so far
    everBelow,    \* TRUE once length has been below length_min
    kwargs,       \* what the TurboState constructor was last called with
    pc,           \* line of the driver loop that runs next
    i,            \* loop variable of the driver: the function number
    train_x,      \* driver variables of the same names
    train_y,
    train_x_2,
    train_y_2,
    x_new,
    y_new,
    next_query,
    gb,           \* locals of the last generate_batch call
    printed,      \* the lines printed so far
    data,         \* faraway_point: parameters and locals of the same names
    num_guess,
    new_pts,
    j,
    max_sum_dist,
    best_point,
    orig,         \* the data faraway_point was called with
    cands,        \* the candidates generated so far in the current round
    result        \* what faraway_point returned

turbovars == <<ret, last, b0, seen, everBelow, kwargs>>
driverdata == <<train_x, train_y, train_x_2, train_y_2, x_new, y_new,
                next_query, gb, printed>>
drivervars == <<pc, i, driverdata>>
farvars == <<data, num_guess, new_pts, j, max_sum_dist, best_point, orig,
             cands, result>>
vars == <<state, turbovars, drivervars, farvars>>

----------------------------------------------------------------------------
(* Bounds of the model *)

\* update_state is no longer called once length has been halved this often
MaxShrinks == 8
\* rows of the CSV file
CsvRows == 1
\* candidates of one generate_batch call that are followed individually
MaxCand == 2
\* faraway_point: rows of the data set it is called with, num_guess, new_pts
MaxData == 1
MaxGuess == 2
MaxNewPts == 2

----------------------------------------------------------------------------
(* Exact rational arithmetic *)

Abs(n) == IF n < 0 THEN -n ELSE n

RECURSIVE GCD(_, _)
GCD(a, b) == IF b = 0 THEN a ELSE GCD(b, a % b)

Rat(n, d) ==
    LET g == GCD(Abs(n), Abs(d))
        s == IF d < 0 THEN -1 ELSE 1
    IN  <<(s * n) \div g, (s * d) \div g>>

RLt(a, b) == a[1] * b[2] < b[1] * a[2]
RLe(a, b) == a[1] * b[2] <= b[1] * a[2]
RAdd(a, b) == Rat(a[1] * b[2] + b[1] * a[2], a[2] * b[2])
RSub(a, b) == Rat(a[1] * b[2] - b[1] * a[2], a[2] * b[2])
RMul(a, b) == Rat(a[1] * b[1], a[2] * b[2])
RDiv(a, b) == Rat(a[1] * b[2], a[2] * b[1])
RMin(a, b) == IF RLt(b, a) THEN b ELSE a
RMax(a, b) == IF RLt(a, b) THEN b ELSE a
RCeil(a) == IF a[1] % a[2] = 0 THEN a[1] \div a[2] ELSE (a[1] \div a[2]) + 1

----------------------------------------------------------------------------
(* Floating-point values of observations *)

Fin(n) == [k |-> "fin", v |-> n]
NegInf == [k |-> "ninf", v |-> 0]
PosInf == [k |-> "inf", v |-> 0]
NaN == [k |-> "nan", v |-> 0]

IsFinite(a) == a.k = "fin"

\* a > b on floats: false whenever either side is nan
FGt(a, b) ==
    CASE a.k = "nan" \/ b.k = "nan" -> FALSE
      [] a.k = "fin" /\ b.k = "fin" -> a.v > b.v
      [] a.k = "inf" -> b.k # "inf"
      [] a.k = "ninf" -> FALSE
      [] OTHER -> b.k = "ninf"

\* Python's built-in max(a, b): keeps a unless b > a
PyMax2(a, b) == IF FGt(b, a) THEN b ELSE a

\* Python's built-in max over a non-empty sequence
RECURSIVE PyMaxUpTo(_, _)
PyMaxUpTo(Y, n) == IF n = 1 THEN Y[1] ELSE PyMax2(PyMaxUpTo(Y, n - 1), Y[n])
PyMax(Y) == PyMaxUpTo(Y, Len(Y))

\* y > best + 1e-3 * math.fabs(best)
\*   best finite : 1000*y > 1000*best + |best|
\*   best = -inf : fabs gives inf, -inf + inf is nan, the test is false
\*   best = inf or nan : the right-hand side is inf or nan, the test is false
\*                       unless y = inf is compared with nan/inf (still false)
ImprovesOn(y, best) ==
    CASE best.k # "fin" -> FALSE
      [] y.k = "fin" -> 1000 * y.v > 1000 * best.v + Abs(best.v)
      [] OTHER -> y.k = "inf"

----------------------------------------------------------------------------
(* TurboState *)

dimensions == <<2, 2, 3, 4, 4, 5, 6, 8>>
functions == 1..8

post_init_dimonly(self) ==
    [self EXCEPT !.failure_tolerance =
        RCeil(RDiv(Rat(self.dim, 1), Rat(self.batch_size, 1)))]

\* lines 105-108: failure_tolerance is computed, whatever was given
post_init(self) ==
    [self EXCEPT !.failure_tolerance =
        RCeil(RMax(RDiv(Rat(4, 1), Rat(self.batch_size, 1)),
                   RDiv(Rat(self.dim, 1), Rat(self.batch_size, 1))))]

\* dataclass constructor: the given fields, defaults for the others, then
\* __post_init__; a failure_tolerance that is not given is float("nan")
TurboState(dim, batch_size, failure_tolerance, best_value) ==
    post_init([dim |-> dim,
               batch_size |-> batch_size,
               length |-> Rat(8, 10),
               length_min |-> Rat(1, 128),
               length_max |-> Rat(16, 10),
               failure_counter |-> 0,
               failure_tolerance |-> failure_tolerance,
               success_counter |-> 0,
               success_tolerance |-> 3,
               best_value |-> best_value,
               restart_triggered |-> FALSE])

\* the arguments of one constructor call
Given(dim, batch_size, failure_tolerance) ==
    [dim |-> dim, batch_size |-> batch_size,
     failure_tolerance |-> failure_tolerance]

\* line 113 without the margin of 1e-3 * fabs(best_value)
Outcome_nomargin(s, Y_next) ==
    IF FGt(PyMax(Y_next), s.best_value) THEN "success" ELSE "failure"

\* line 113: does the batch improve on the best value by the margin
Outcome(s, Y_next) ==
    IF ImprovesOn(PyMax(Y_next), s.best_value) THEN "success" ELSE "failure"

\* lines 113-118 without the resets of lines 115 and 117
CountOutcome_noreset(s, Y_next) ==
    IF Outcome(s, Y_next) = "success"
    THEN [s EXCEPT !.success_counter = @ + 1]
    ELSE [s EXCEPT !.failure_counter = @ + 1]

\* lines 113-118: count a success or a failure
CountOutcome(s, Y_next) ==
    IF Outcome(s, Y_next) = "success"
    THEN [s EXCEPT !.success_counter = @ + 1, !.failure_counter = 0]
    ELSE [s EXCEPT !.success_counter = 0, !.failure_counter = @ + 1]

\* lines 120 and 123: which branch the counters select
Regime(s) ==
    IF s.success_counter = s.success_tolerance THEN "expand"
    ELSE IF s.failure_counter = s.failure_tolerance THEN "shrink"
    ELSE "none"

\* lines 120-125 with the reset of line 125 applied to the tolerance
Resize_typo(s) ==
    IF s.success_counter = s.success_tolerance
    THEN [s EXCEPT !.length = RMin(RMul(Rat(2, 1), @), s.length_max),
                   !.success_counter = 0]
    ELSE IF s.failure_counter = s.failure_tolerance
    THEN [s EXCEPT !.length = RDiv(@, Rat(2, 1)),
                   !.failure_tolerance = 0]
    ELSE s

\* lines 120-125 without the min of line 121
Resize_nocap(s) ==
    IF s.success_counter = s.success_tolerance
    THEN [s EXCEPT !.length = RMul(Rat(2, 1), @),
                   !.success_counter = 0]
    ELSE IF s.failure_counter = s.failure_tolerance
    THEN [s EXCEPT !.length = RDiv(@, Rat(2, 1)),
                   !.failure_counter = 0]
    ELSE s

\* lines 120-125 shrinking one failure late
Resize_late(s) ==
    IF s.success_counter = s.success_tolerance
    THEN [s EXCEPT !.length = RMin(RMul(Rat(2, 1), @), s.length_max),
                   !.success_counter = 0]
    ELSE IF s.failure_counter = s.failure_tolerance + 1
    THEN [s EXCEPT !.length = RDiv(@, Rat(2, 1)),
                   !.failure_counter = 0]
    ELSE s

\* lines 120-125: expand or shrink the trust region
Resize(s) ==
    IF s.success_counter = s.success_tolerance
    THEN [s EXCEPT !.length = RMin(RMul(Rat(2, 1), @), s.length_max),
                   !.success_counter = 0]
    ELSE IF s.failure_counter = s.failure_tolerance
    THEN [s EXCEPT !.length = RDiv(@, Rat(2, 1)),
                   !.failure_counter = 0]
    ELSE s

\* line 127 without the old best value
SetBest_forget(s, Y_next) ==
    [s EXCEPT !.best_value = PyMax(Y_next)]

\* line 127
SetBest(s, Y_next) ==
    [s EXCEPT !.best_value = PyMax2(@, PyMax(Y_next))]

\* lines 128-129 without the assignment
CheckRestart_noflag(s) == s

\* lines 128-129 compared with the wrong bound
CheckRestart_max(s) ==
    IF RLt(s.length, s.length_max)
    THEN [s EXCEPT !.restart_triggered = TRUE]
    ELSE s

\* lines 128-129
CheckRestart(s) ==
    IF RLt(s.length, s.length_min)
    THEN [s EXCEPT !.restart_triggered = TRUE]
    ELSE s

update_state(s, Y_next) ==
    CheckRestart(SetBest(Resize(CountOutcome(s, Y_next)), Y_next))

----------------------------------------------------------------------------
(* Inputs *)

YValues == {Fin(-999), Fin(0), Fin(1000), Fin(1001), Fin(1002)}
BestValues == {NegInf, Fin(-1000), Fin(1000)}

\* 0.8 / 2^MaxShrinks
RECURSIVE Halved(_, _)
Halved(r, n) == IF n = 0 THEN r ELSE Halved(RDiv(r, Rat(2, 1)), n - 1)
LengthFloor == Halved(Rat(8, 10), MaxShrinks)

NoCall ==
    [op |-> "none", Y_next |-> <<>>, counted |-> "none", resized |-> "none",
     after_count |-> <<0, 0>>, length_before |-> Rat(0, 1)]

----------------------------------------------------------------------------
(* Tensors: a matrix is a sequence of rows, a row a sequence of rationals *)

Zero == Rat(0, 1)
One == Rat(1, 1)
Half == Rat(1, 2)

\* torch.max of a 1-d tensor: nan propagates
TorchMax(Y) ==
    IF \E q \in 1..Len(Y) : Y[q].k = "nan" THEN NaN ELSE PyMax(Y)

\* Tensor.argmax of a 1-d tensor: the first maximal entry (the first nan if any)
ArgMax(Y) ==
    IF \E q \in 1..Len(Y) : Y[q].k = "nan"
    THEN CHOOSE q \in 1..Len(Y) :
            Y[q].k = "nan" /\ \A l \in 1..(q - 1) : Y[l].k # "nan"
    ELSE CHOOSE q \in 1..Len(Y) :
            /\ \A l \in 1..Len(Y) : ~FGt(Y[l], Y[q])
            /\ \A l \in 1..(q - 1) : FGt(Y[q], Y[l])

\* line 183 without the test of X.max()
InUnitCube_minonly(X) ==
    \A r \in 1..Len(X) : \A k \in 1..Len(X[r]) : RLe(Zero, X[r][k])

\* X.min() >= 0.0 and X.max() <= 1.0
InUnitCube(X) ==
    \A r \in 1..Len(X) : \A k \in 1..Len(X[r]) :
        RLe(Zero, X[r][k]) /\ RLe(X[r][k], One)

AllFinite(Y) == \A q \in 1..Len(Y) : IsFinite(Y[q])

\* torch.clamp(v, 0.0, 1.0)
Clamp01(v) == RMin(RMax(v, Zero), One)

RECURSIVE SumUpTo(_, _)
SumUpTo(v, n) == IF n = 0 THEN Zero ELSE RAdd(SumUpTo(v, n - 1), v[n])
Mean(v) == RDiv(SumUpTo(v, Len(v)), Rat(Len(v), 1))

\* torch.prod(weights.pow(1.0 / len(weights))): the geometric mean, which is
\* rational when all entries are equal (the only lengthscales an untrained
\* model has)
GeoMean(w) == IF \A k \in 1..Len(w) : w[k] = w[1] THEN w[1] ELSE One

\* np.reshape(flat, (-1, d))
Reshape(flat, d) ==
    [r \in 1..(Len(flat) \div d) |-> [k \in 1..d |-> flat[(r - 1) * d + k]]]

RECURSIVE Flatten(_, _)
Flatten(cells, n) == IF n = 0 THEN <<>> ELSE Flatten(cells, n - 1) \o cells[n]

----------------------------------------------------------------------------
(* ExactGPModel, generate_batch, next_query_via_TurBO *)

\* initial value of every RBF lengthscale, softplus(0) = ln 2
InitialLengthscale == Rat(693, 1000)

ExactGPModel(tx, ty) ==
    [train_x |-> tx,
     train_y |-> ty,
     lengthscale |-> [k \in 1..Len(tx[1]) |-> InitialLengthscale],
     training_iter |-> 2000]

\* line 185
NCandidates(X) ==
    LET a == 200 * Len(X[1])
        b == IF a > 2000 THEN a ELSE 2000
    IN  IF b < 5000 THEN b ELSE 5000

\* indices of the candidates the model follows
CandIdx(X) == 1..(IF NCandidates(X) < MaxCand THEN NCandidates(X) ELSE MaxCand)

\* a Python string, character by character
ts == <<"t", "s">>

\* a in b for two Python strings
IsSubstring(a, b) ==
    \E k \in 0..(Len(b) - Len(a)) : SubSeq(b, k + 1, k + Len(a)) = a

\* line 182: ("ts") is the string "ts", not a tuple, so acqf in ("ts") is a
\* substring test
AcqfAccepted(acqf) == IsSubstring(acqf, ts)

\* lines 189-191
DivideAll(v, m) == [k \in 1..Len(v) |-> RDiv(v[k], m)]
\* line 190
ByMean(ls) == DivideAll(ls, Mean(ls))
\* line 191
ByGeoMean(w1) == DivideAll(w1, GeoMean(w1))
Weights(model) == ByGeoMean(ByMean(model.lengthscale))

\* line 188
XCenter(X, Y) == X[ArgMax(Y)]

HalfWidth(st, w, k) == RDiv(RMul(w[k], st.length), Rat(2, 1))

\* line 192
TrLb(st, w, xc) == [k \in 1..Len(xc) |-> Clamp01(RSub(xc[k], HalfWidth(st, w, k)))]

\* line 193 without the clamp
TrUb_noclamp(st, w, xc) == [k \in 1..Len(xc) |-> RAdd(xc[k], HalfWidth(st, w, k))]

\* line 193
TrUb(st, w, xc) == [k \in 1..Len(xc) |-> Clamp01(RAdd(xc[k], HalfWidth(st, w, k)))]

\* line 202
ProbPerturb(dim) == RMin(Rat(20, dim), One)

\* lines 203-208: every entry of torch.rand is below 1, so the mask is all
\* True when prob_perturb is 1; otherwise any mask, and a row without a True
\* gets one at a column drawn by randint(0, dim - 1), which excludes the last
Masks(cs, dim) ==
    IF ProbPerturb(dim) = One
    THEN {[c \in cs |-> [k \in 1..dim |-> TRUE]]}
    ELSE {m \in [cs -> [1..dim -> BOOLEAN]] :
            \A c \in cs : \E k \in 1..dim : m[c][k]}

\* lines 199, 211-212 with the candidates one coordinate short
XCand_short(xc, lb, ub, pert, mask) ==
    [c \in DOMAIN pert |->
        [k \in 1..(Len(xc) - 1) |->
            IF mask[c][k]
            THEN RAdd(lb[k], RMul(RSub(ub[k], lb[k]), pert[c][k]))
            ELSE xc[k]]]

\* lines 199, 211-212: the candidate points
XCand(xc, lb, ub, pert, mask) ==
    [c \in DOMAIN pert |->
        [k \in 1..Len(xc) |->
            IF mask[c][k]
            THEN RAdd(lb[k], RMul(RSub(ub[k], lb[k]), pert[c][k]))
            ELSE xc[k]]]

\* line 221
PickCandidate(X_cand, idx) == X_cand[idx]

NoBatch ==
    [status |-> "none", x_center |-> <<>>, tr_lb |-> <<>>, tr_ub |-> <<>>,
     X_next |-> <<>>, lengthscale |-> <<>>, weights |-> <<>>,
     acqf |-> <<>>, raised_at |-> 0]

\* lines 195-221, given the centre and the bounds of the trust region
ThompsonBranch(acqf, xc, lb, ub, pert, mask, idx) ==
    IF acqf = ts
    THEN [status |-> "ok", x_center |-> xc, tr_lb |-> lb, tr_ub |-> ub,
          X_next |-> PickCandidate(XCand(xc, lb, ub, pert, mask), idx),
          acqf |-> acqf, raised_at |-> 0]
    ELSE [status |-> "UnboundLocalError", x_center |-> xc,
          tr_lb |-> lb, tr_ub |-> ub, X_next |-> <<>>,
          acqf |-> acqf, raised_at |-> 223]

\* lines 188-193, then the branch on acqf
TrustRegion(st, model, X, Y, acqf, pert, mask, idx) ==
    CHOOSE r \in {ThompsonBranch(acqf, c[1], c[2], c[3], pert, mask, idx)
                      @@ [lengthscale |-> model.lengthscale, weights |-> c[4]] :
                    c \in {<<xc, TrLb(st, w, xc), TrUb(st, w, xc), w>> :
                            xc \in {XCenter(X, Y)}, w \in {Weights(model)}}} : TRUE

\* pert: the Sobol draws, idx: the argmax of the posterior sample
generate_batch(st, model, X, Y, acqf, pert, mask, idx) ==
    IF ~AcqfAccepted(acqf)
    THEN [NoBatch EXCEPT !.status = "AssertionError", !.acqf = acqf,
                         !.raised_at = 182]
    ELSE IF ~(InUnitCube(X) /\ AllFinite(Y))
    THEN [NoBatch EXCEPT !.status = "AssertionError", !.acqf = acqf,
                         !.raised_at = 183]
    ELSE TrustRegion(st, model, X, Y, acqf, pert, mask, idx)

\* lines 297-327 with the training loop of lines 312-325 running: an Adam
\* step of size lr = 0.1 moves every raw lengthscale up or down
next_query_via_TurBO_trained(tx, ty, turbo_state, pert, mask, idx) ==
    generate_batch(turbo_state,
                   [ExactGPModel(tx, ty) EXCEPT !.lengthscale =
                       [k \in DOMAIN @ |->
                           IF k = 1 THEN RAdd(@[k], Rat(1, 10))
                                    ELSE RSub(@[k], Rat(1, 10))]],
                   tx, ty, ts, pert, mask, idx)

\* lines 297-327: the training loop is commented out
next_query_via_TurBO(tx, ty, turbo_state, pert, mask, idx) ==
    generate_batch(turbo_state, ExactGPModel(tx, ty), tx, ty, ts, pert, mask, idx)

----------------------------------------------------------------------------
(* Inputs of the driver *)

RowOf(d, a, b) == [k \in 1..d |-> IF k % 2 = 1 THEN a ELSE b]

\* rows of the initial_inputs.npy files
FileRows(d) == {RowOf(d, Zero, Zero), RowOf(d, Half, One)}
\* outputs of the initial_outputs.npy files
FileY == {Fin(0), Fin(1)}
\* cells of the columns f1..f8 of the CSV file, as parsed by np.fromstring
CsvCells(d) == {RowOf(d, Zero, Zero), RowOf(d, Half, Rat(5, 4))}
\* cells of the columns f1_output..f8_output
CsvY == {Fin(0), Fin(2), NaN}
\* rows drawn from the Sobol sequence, in [0, 1)
SobolRows(d) == {RowOf(d, Zero, Zero), RowOf(d, Rat(1, 4), Rat(3, 4))}

----------------------------------------------------------------------------
(* The driver loop, one action per statement *)

DriverIdle ==
    /\ pc = "idle" /\ i = 0
    /\ train_x = <<>> /\ train_y = <<>> /\ train_x_2 = <<>> /\ train_y_2 = <<>>
    /\ x_new = <<>> /\ y_new = <<>> /\ next_query = <<>>
    /\ gb = NoBatch /\ printed = <<>>

FarIdle ==
    /\ data = <<>> /\ orig = <<>> /\ num_guess = 0 /\ new_pts = 0 /\ j = 0
    /\ max_sum_dist = Zero /\ best_point = <<>> /\ cands = <<>> /\ result = <<>>

TurboIdle ==
    /\ ret = state /\ last = NoCall /\ b0 = state.best_value
    /\ seen = {} /\ everBelow = FALSE
    /\ kwargs = Given(state.dim, 1, NaN)

dim_i == dimensions[i]

\* line 610
LoadTrainX ==
    /\ pc = "l610"
    /\ \E row \in FileRows(dim_i) : train_x' = <<row>>
    /\ pc' = "l611"
    /\ UNCHANGED <<state, turbovars, farvars, i, train_y, train_x_2, train_y_2, x_new,
                   y_new, next_query, gb, printed>>

\* line 611
LoadTrainY ==
    /\ pc = "l611"
    /\ \E y \in FileY : train_y' = <<y>>
    /\ pc' = "l612"
    /\ UNCHANGED <<state, turbovars, farvars, i, train_x, train_x_2, train_y_2, x_new,
                   y_new, next_query, gb, printed>>

\* line 612
LoadTrainX2 ==
    /\ pc = "l612"
    /\ \E row \in FileRows(dim_i) : train_x_2' = <<row>>
    /\ pc' = "l613"
    /\ UNCHANGED <<state, turbovars, farvars, i, train_x, train_y, train_y_2, x_new,
                   y_new, next_query, gb, printed>>

\* line 613
LoadTrainY2 ==
    /\ pc = "l613"
    /\ \E y \in FileY : train_y_2' = <<y>>
    /\ pc' = "l615"
    /\ UNCHANGED <<state, turbovars, farvars, i, train_x, train_y, train_x_2, x_new,
                   y_new, next_query, gb, printed>>

\* lines 615-620: parse the column f<i> of every CSV row and reshape
ParseXNew ==
    /\ pc = "l615"
    /\ \E cells \in [1..CsvRows -> CsvCells(dim_i)] :
          x_new' = Reshape(Flatten(cells, CsvRows), dim_i)
    /\ pc' = "l622"
    /\ UNCHANGED <<state, turbovars, farvars, i, train_x, train_y, train_x_2, train_y_2,
                   y_new, next_query, gb, printed>>

\* line 622
LoadYNew ==
    /\ pc = "l622"
    /\ \E ys \in [1..CsvRows -> CsvY] : y_new' = ys
    /\ pc' = "l624"
    /\ UNCHANGED <<state, turbovars, farvars, i, train_x, train_y, train_x_2, train_y_2,
                   x_new, next_query, gb, printed>>

\* line 624
BuildState ==
    /\ pc = "l624"
    /\ state' = TurboState(dim_i, 1, NaN, TorchMax(train_y))
    /\ kwargs' = Given(dim_i, 1, NaN)
    /\ pc' = "l626"
    /\ UNCHANGED <<ret, last, b0, seen, everBelow, farvars, i, train_x, train_y, train_x_2, train_y_2, x_new,
                   y_new, next_query, gb, printed>>

\* line 626
ConcatX ==
    /\ pc = "l626"
    /\ train_x' = train_x \o train_x_2 \o x_new
    /\ pc' = "l628"
    /\ UNCHANGED <<state, turbovars, farvars, i, train_y, train_x_2, train_y_2, x_new,
                   y_new, next_query, gb, printed>>

\* line 628
ConcatY ==
    /\ pc = "l628"
    /\ train_y' = train_y \o train_y_2 \o y_new
    /\ pc' = "l630"
    /\ UNCHANGED <<state, turbovars, farvars, i, train_x, train_x_2, train_y_2, x_new,
                   y_new, next_query, gb, printed>>

\* line 630: an exception in the call ends the run
Query ==
    /\ pc = "l630"
    /\ \E pert \in [CandIdx(train_x) -> SobolRows(dim_i)],
          mask \in Masks(CandIdx(train_x), dim_i),
          idx \in CandIdx(train_x) :
          \E r \in {next_query_via_TurBO(train_x, train_y, state, pert, mask, idx)} :
              /\ gb' = r
              /\ IF r.status = "ok"
                 THEN next_query' = r.X_next /\ pc' = "l631"
                 ELSE next_query' = next_query /\ pc' = "failed"
    /\ UNCHANGED <<state, turbovars, farvars, i, train_x, train_y, train_x_2, train_y_2,
                   x_new, y_new, printed>>

\* line 631 commented out like line 632
ShowQuery_silent ==
    /\ pc = "l631"
    /\ IF i = Len(dimensions)
       THEN pc' = "done" /\ i' = i
       ELSE pc' = "l610" /\ i' = i + 1
    /\ UNCHANGED <<state, turbovars, farvars, train_x, train_y, train_x_2, train_y_2,
                   x_new, y_new, next_query, gb, printed>>

\* line 631, then the loop head
ShowQuery ==
    /\ pc = "l631"
    /\ printed' = Append(printed, [fn |-> i, width |-> Len(next_query)])
    /\ IF i = Len(dimensions)
       THEN pc' = "done" /\ i' = i
       ELSE pc' = "l610" /\ i' = i + 1
    /\ UNCHANGED <<state, turbovars, farvars, train_x, train_y, train_x_2, train_y_2,
                   x_new, y_new, next_query, gb>>

\* the notebook as run: cell 6 leaves state = TurboState(dim = 6)
DriverInit ==
    /\ state = TurboState(6, 1, NaN, NegInf)
    /\ TurboIdle
    /\ FarIdle
    /\ pc = "l610" /\ i = 1
    /\ train_x = <<>> /\ train_y = <<>> /\ train_x_2 = <<>> /\ train_y_2 = <<>>
    /\ x_new = <<>> /\ y_new = <<>> /\ next_query = <<>>
    /\ gb = NoBatch /\ printed = <<>>

DriverNext ==
    \/ LoadTrainX
    \/ LoadTrainY
    \/ LoadTrainX2
    \/ LoadTrainY2
    \/ ParseXNew
    \/ LoadYNew
    \/ BuildState
    \/ ConcatX
    \/ ConcatY
    \/ Query
    \/ ShowQuery

SpecDriver == DriverInit /\ [][DriverNext]_vars

----------------------------------------------------------------------------
(* faraway_point, one action per statement group *)

\* floor of the square root of a natural number, by bisection
RECURSIVE ISqrtIn(_, _, _)
ISqrtIn(n, lo, hi) ==
    IF lo = hi THEN lo
    ELSE LET mid == (lo + hi + 1) \div 2
         IN  IF mid * mid <= n THEN ISqrtIn(n, mid, hi) ELSE ISqrtIn(n, lo, mid - 1)

\* np.sqrt of a rational below 2000, rounded down to three decimals
RSqrt(a) == Rat(ISqrtIn((a[1] * 1000000) \div a[2], 0, 50000), 1000)

RECURSIVE SumSqUpTo(_, _, _)
SumSqUpTo(u, v, n) ==
    IF n = 0 THEN Zero
    ELSE RAdd(SumSqUpTo(u, v, n - 1), RMul(RSub(u[n], v[n]), RSub(u[n], v[n])))

\* line 153: one entry of euclid_dist
EuclidDist(row, new_point) == RSqrt(SumSqUpTo(row, new_point, Len(new_point)))

\* lines 153-154
SumDist(d, new_point) ==
    SumUpTo([r \in 1..Len(d) |-> EuclidDist(d[r], new_point)], Len(d))

\* number of columns of the data sets, data.shape[1]
FarDim == 2
\* rows of the data set faraway_point is called with
FarRows == {RowOf(FarDim, Zero, Zero), RowOf(FarDim, Half, Half)}
\* values of np.random.rand(1, dim), in [0, 1)
FarCands == FarRows \cup {RowOf(FarDim, Zero, Half)}

FarInit ==
    /\ state = TurboState(6, 1, NaN, NegInf)
    /\ TurboIdle
    /\ train_x = <<>> /\ train_y = <<>> /\ train_x_2 = <<>> /\ train_y_2 = <<>>
    /\ x_new = <<>> /\ y_new = <<>> /\ next_query = <<>>
    /\ gb = NoBatch /\ printed = <<>>
    /\ \E n \in 0..MaxData : data \in [1..n -> FarRows]
    /\ orig = data
    /\ num_guess \in 1..MaxGuess
    /\ new_pts \in 0..MaxNewPts
    /\ pc = "f148" /\ i = 0 /\ j = 0
    /\ max_sum_dist = Zero /\ best_point = <<>> /\ cands = <<>> /\ result = <<>>

\* lines 148-150: the next round starts
FarRound ==
    /\ pc = "f148" /\ j < new_pts
    /\ max_sum_dist' = Zero
    /\ best_point' = <<>>
    /\ cands' = <<>>
    /\ i' = 0
    /\ pc' = "f151"
    /\ UNCHANGED <<state, turbovars, driverdata, data, num_guess, new_pts, j,
                   orig, result>>

\* lines 151-157: one candidate
FarGuess ==
    /\ pc = "f151" /\ i < num_guess
    /\ \E new_point \in FarCands :
          \E sum_dist \in {SumDist(data, new_point)} :
              /\ cands' = Append(cands, new_point)
              /\ IF RLt(max_sum_dist, sum_dist)
                 THEN max_sum_dist' = sum_dist /\ best_point' = new_point
                 ELSE UNCHANGED <<max_sum_dist, best_point>>
    /\ i' = i + 1
    /\ UNCHANGED <<state, turbovars, driverdata, pc, data, num_guess, new_pts,
                   j, orig, result>>

\* lines 158-159: print and append the best point; both fail on the empty
\* list that best_point still is when no candidate had a positive sum
FarAppend ==
    /\ pc = "f151" /\ i = num_guess
    /\ IF best_point = <<>>
       THEN pc' = "raised" /\ UNCHANGED <<data, j>>
       ELSE pc' = "f148" /\ data' = Append(data, best_point) /\ j' = j + 1
    /\ UNCHANGED <<state, turbovars, driverdata, i, num_guess, new_pts,
                   max_sum_dist, best_point, orig, cands, result>>

\* line 160
FarReturn ==
    /\ pc = "f148" /\ j = new_pts
    /\ result' = data
    /\ pc' = "returned"
    /\ UNCHANGED <<state, turbovars, driverdata, i, data, num_guess, new_pts,
                   j, max_sum_dist, best_point, orig, cands>>

FarNext == FarRound \/ FarGuess \/ FarAppend \/ FarReturn

SpecFaraway == FarInit /\ [][FarNext]_vars

----------------------------------------------------------------------------
(* The record under a sequence of update_state calls *)

Init ==
    /\ \E fn \in functions, b \in BestValues :
          /\ state = TurboState(dimensions[fn], 1, NaN, b)
          /\ kwargs = Given(dimensions[fn], 1, NaN)
          /\ b0 = b
    /\ ret = state
    /\ last = NoCall
    /\ seen = {}
    /\ everBelow = FALSE
    /\ DriverIdle
    /\ FarIdle

\* one call state = update_state(state, Y_next)
Update(Y_next) ==
    LET counted == CountOutcome(state, Y_next)
        new == update_state(state, Y_next)
    IN  /\ RLt(LengthFloor, state.length)
        /\ state' = new
        /\ ret' = new
        /\ last' = [op |-> "update_state",
                    Y_next |-> Y_next,
                    counted |-> Outcome(state, Y_next),
                    resized |-> Regime(counted),
                    after_count |-> <<counted.success_counter,
                                      counted.failure_counter>>,
                    length_before |-> state.length]
        /\ seen' = seen \cup {Y_next[q] : q \in 1..Len(Y_next)}
        /\ everBelow' = (everBelow \/ RLt(new.length, new.length_min))
        /\ UNCHANGED <<b0, kwargs, drivervars, farvars>>

UpdateState == \E Y_next \in [1..state.batch_size -> YValues] : Update(Y_next)

Next == UpdateState

Spec == Init /\ [][Next]_vars

\* A run of observations that keeps improving: six successes in a row are
\* possible from a best value of -1000.
ClimbValues ==
    {Fin(0), Fin(1000), Fin(2000), Fin(3000), Fin(4000), Fin(5000)}

ClimbInit ==
    /\ \E fn \in functions :
          /\ state = TurboState(dimensions[fn], 1, NaN, Fin(-1000))
          /\ kwargs = Given(dimensions[fn], 1, NaN)
          /\ b0 = Fin(-1000)
    /\ ret = state
    /\ last = NoCall
    /\ seen = {}
    /\ everBelow = FALSE
    /\ DriverIdle
    /\ FarIdle

ClimbState ==
    \E Y_next \in [1..state.batch_size -> ClimbValues] : Update(Y_next)

ClimbNext == ClimbState

SpecClimb == ClimbInit /\ [][ClimbNext]_vars

----------------------------------------------------------------------------
(* Properties of the trust-region record *)

Called == last.op = "update_state"

\* C1 as stated: in every reachable state length_min <= length <= length_max.
C1_LengthWithinMinMax ==
    /\ RLe(state.length_min, state.length)
    /\ RLe(state.length, state.length_max)

\* C1 amended: length never exceeds length_max, and it is at least
\* length_min as long as restart_triggered is False; the halving of line 124
\* is not clamped, so length does fall below length_min.
C1_LengthBounded ==
    /\ RLe(state.length, state.length_max)
    /\ (~state.restart_triggered => RLe(state.length_min, state.length))

C1_Witness ==
    /\ Called
    /\ state.restart_triggered
    /\ RLt(state.length, state.length_min)

\* C2: after a call counted as a success failure_counter is 0, after a call
\* counted as a failure success_counter is 0, after an expansion
\* success_counter is 0 and after a shrink failure_counter is 0.
C2_CountersReset ==
    Called =>
        /\ (last.counted = "success" => state.failure_counter = 0)
        /\ (last.counted = "failure" => state.success_counter = 0)
        /\ (last.resized = "expand" => state.success_counter = 0)
        /\ (last.resized = "shrink" => state.failure_counter = 0)

C2_Witness == Called /\ last.resized = "expand" /\ last.counted = "success"

\* C3: a length below length_min comes with restart_triggered = True, and
\* restart_triggered is False while the length has never been below
\* length_min.
C3_RestartFlag ==
    /\ (Called /\ RLt(state.length, state.length_min) => state.restart_triggered)
    /\ (~everBelow => ~state.restart_triggered)

C3_Witness ==
    /\ Called
    /\ last.resized = "shrink"
    /\ RLt(state.length, state.length_min)
    /\ state.restart_triggered

\* the largest element of a non-empty finite set of (non-nan) values
SetMax(S) == CHOOSE m \in S : \A x \in S : ~FGt(x, m)

\* C4: best_value is the maximum of the initial best_value and all the
\* observations of the calls so far, and no call decreases it.
C4_BestIsRunningMax ==
    /\ [](state.best_value = SetMax({b0} \cup seen))
    /\ [][~FGt(state.best_value, state'.best_value)]_vars

C4_Witness ==
    /\ Called
    /\ Cardinality(seen) >= 3
    /\ state.best_value # b0
    /\ state.best_value # PyMax(last.Y_next)

FrameFields ==
    {"dim", "batch_size", "length_min", "length_max",
     "success_tolerance", "failure_tolerance"}

\* C8: every update_state call returns the record it updated, and leaves
\* dim, batch_size, length_min, length_max, success_tolerance and
\* failure_tolerance as they were.
C8_InPlaceFrame ==
    [][ /\ ret' = state'
        /\ \A f \in FrameFields : state'[f] = state[f] ]_vars

C8_Witness ==
    /\ Called
    /\ ret = state
    /\ state.length # Rat(8, 10)
    /\ state.best_value # b0

----------------------------------------------------------------------------
(* Properties of the driver loop and of generate_batch *)

\* C5: when next_query_via_TurBO is called, state.best_value is the maximum
\* output over all the observations loaded for the function, that is, the
\* maximum of the train_y passed to the optimiser.
C5_BestIsMaxOfLoaded ==
    pc = "l630" => state.best_value = TorchMax(train_y)

\* the statements of one pass of the loop, grouped as load / build state and
\* training set / propose / print
Phase(l) ==
    CASE l \in {"l610", "l611", "l612", "l613", "l615", "l622"} -> 1
      [] l \in {"l624", "l626", "l628"} -> 2
      [] l = "l630" -> 3
      [] l = "l631" -> 4
      [] OTHER -> 5

C6_Progress ==
    /\ i \in functions
    /\ \A q \in 1..Len(printed) : printed[q].fn = q
    /\ Len(printed) = (IF pc = "done" THEN Len(dimensions) ELSE i - 1)

C6_Order ==
    \/ /\ Phase(pc) < 4
       /\ i' = i /\ printed' = printed
       /\ Phase(pc') \in {Phase(pc), Phase(pc) + 1}
    \/ /\ Phase(pc) = 3
       /\ pc' = "failed" /\ i' = i /\ printed' = printed
    \/ /\ Phase(pc) = 4
       /\ Len(printed') = Len(printed) + 1
       /\ \/ i < Len(dimensions) /\ i' = i + 1 /\ pc' = "l610"
          \/ i = Len(dimensions) /\ i' = i /\ pc' = "done"

\* C6: the functions are processed in increasing order, each pass runs
\* load, build, propose, print in that order, one proposal is printed per
\* function, and no statement for the next function runs before the
\* proposal for the current one is printed.
C6_LinearPipeline == []C6_Progress /\ [][C6_Order]_vars

C6_Witness == pc = "done" /\ Len(printed) = Len(dimensions)

\* C7: a successful generate_batch returns one point with as many
\* coordinates as the input has columns, dimensions[i] in the driver, and
\* that is what gets printed.
C7_OnePointOfDim ==
    /\ (pc = "l631" /\ gb.status = "ok") =>
          /\ next_query = gb.X_next
          /\ Len(gb.X_next) = Len(train_x[1])
          /\ Len(gb.X_next) = dimensions[i]
    /\ \A q \in 1..Len(printed) : printed[q].width = dimensions[q]

C7_Witness ==
    /\ pc = "l631" /\ i = 7
    /\ gb.status = "ok"
    /\ Len(next_query) = 6

\* C9: in a successful generate_batch the centre is the first row with the
\* largest output, 0 <= tr_lb <= x_center <= tr_ub <= 1 in every coordinate
\* and the returned point lies between tr_lb and tr_ub.
C9_TrustRegionBox ==
    (pc = "l631" /\ gb.status = "ok") =>
        /\ \E q \in 1..Len(train_y) :
              /\ gb.x_center = train_x[q]
              /\ \A l \in 1..Len(train_y) : ~FGt(train_y[l], train_y[q])
              /\ \A l \in 1..(q - 1) : FGt(train_y[q], train_y[l])
        /\ \A k \in 1..dimensions[i] :
              /\ RLe(Zero, gb.tr_lb[k])
              /\ RLe(gb.tr_lb[k], gb.x_center[k])
              /\ RLe(gb.x_center[k], gb.tr_ub[k])
              /\ RLe(gb.tr_ub[k], One)
              /\ RLe(gb.tr_lb[k], gb.X_next[k])
              /\ RLe(gb.X_next[k], gb.tr_ub[k])
              /\ RLe(Zero, gb.X_next[k]) /\ RLe(gb.X_next[k], One)

\* a tie for the largest output between rows with different inputs, a bound
\* that was clamped, and a point away from the centre
C9_Witness ==
    /\ pc = "l631" /\ gb.status = "ok"
    /\ \E q, l \in 1..Len(train_y) :
          q < l /\ train_y[q] = train_y[l] /\ train_x[q] # train_x[l]
          /\ ArgMax(train_y) = q
    /\ gb.tr_ub[2] = One
    /\ gb.X_next # gb.x_center

----------------------------------------------------------------------------
(* Properties of faraway_point *)

InHalfOpenUnit(row) ==
    \A k \in 1..Len(row) : RLe(Zero, row[k]) /\ RLt(row[k], One)

\* C10: with num_guess >= 1 the call returns, and the result is the data
\* set it was given, rows unchanged and in order, followed by new_pts rows,
\* each a candidate with every coordinate in [0, 1), the last of them a
\* candidate of the last round.
C10_ReturnsDataPlusNewPoints ==
    /\ pc # "raised"
    /\ pc = "returned" =>
          /\ Len(result) = Len(orig) + new_pts
          /\ SubSeq(result, 1, Len(orig)) = orig
          /\ \A r \in (Len(orig) + 1)..Len(result) : InHalfOpenUnit(result[r])
          /\ new_pts > 0 =>
                \E c \in 1..Len(cands) : result[Len(result)] = cands[c]

\* the round's candidates have all been generated and compared
RoundDone == pc = "f151" /\ i = num_guess

\* candidate c is the earliest of the candidates furthest from the data set
EarliestFurthest(c) ==
    /\ \A e \in 1..Len(cands) :
          RLe(SumDist(data, cands[e]), SumDist(data, cands[c]))
    /\ \A e \in 1..(c - 1) :
          RLt(SumDist(data, cands[e]), SumDist(data, cands[c]))

\* C11: at the end of every round the selected point is the earliest of the
\* candidates with the largest sum of distances to the data set, where the
\* data set is the original one followed by the points of the rounds before.
C11_SelectsFurthest ==
    /\ Len(data) = Len(orig) + j
    /\ SubSeq(data, 1, Len(orig)) = orig
    /\ RoundDone =>
          \E c \in 1..Len(cands) : best_point = cands[c] /\ EarliestFurthest(c)

----------------------------------------------------------------------------
(* Rejection of invalid data *)

\* some entry of X is below 0 or above 1, or some entry of Y is not finite
InvalidData(X, Y) ==
    \/ \E r \in 1..Len(X) : \E k \in 1..Len(X[r]) :
          RLt(X[r][k], Zero) \/ RLt(One, X[r][k])
    \/ \E q \in 1..Len(Y) : Y[q].k \in {"inf", "ninf", "nan"}

C12_Rejects ==
    /\ pc # "failed"
    /\ (pc = "l630" /\ InvalidData(train_x, train_y)) =>
          /\ pc' = "failed"
          /\ gb'.status = "AssertionError"
          /\ gb'.X_next = <<>> /\ gb'.tr_lb = <<>> /\ gb'.tr_ub = <<>>
          /\ state' = state
          /\ next_query' = next_query
          /\ printed' = printed
    /\ (pc = "l630" /\ ~InvalidData(train_x, train_y)) => pc' = "l631"

\* C12: called with an X entry outside [0, 1] or a non-finite Y entry,
\* generate_batch fails at its assertion with no candidate generated and the
\* TurboState untouched, and the run ends there: nothing is printed for
\* that function or a later one.
C12_InvalidDataEndsRun ==
    /\ [][C12_Rejects]_vars
    /\ [](pc = "failed" => Len(printed) = i - 1)

C12_Witness ==
    /\ pc = "failed" /\ i = 3
    /\ gb.status = "AssertionError"
    /\ AllFinite(train_y)
    /\ Len(printed) = 2

----------------------------------------------------------------------------
(* The untrained model *)

HalfLength == RDiv(state.length, Rat(2, 1))

----------------------------------------------------------------------------
(* Counting and resizing, call by call *)

\* max(Y_next) > best_value + 0.001 * |best_value| in exact arithmetic; with
\* best_value = -inf the right-hand side is -inf + inf = nan and the
\* comparison is false
Exceeds(Y_next, best) ==
    LET m == PyMax(Y_next)
    IN  /\ best.k = "fin"
        /\ \/ m.k = "inf"
           \/ /\ m.k = "fin"
              /\ RLt(RAdd(Rat(best.v, 1),
                          RMul(Rat(1, 1000), Rat(Abs(best.v), 1))),
                     Rat(m.v, 1))

C14_Counts ==
    LET up == Exceeds(last'.Y_next, state.best_value)
    IN  /\ last'.op = "update_state"
        /\ last'.counted = (IF up THEN "success" ELSE "failure")
        /\ up => /\ last'.after_count[1] = state.success_counter + 1
                 /\ last'.after_count[2] # state.failure_counter + 1
        /\ ~up => /\ last'.after_count[2] = state.failure_counter + 1
                  /\ last'.after_count[1] # state.success_counter + 1

\* C14: a call counts as a success exactly when max(Y_next) exceeds the best
\* value read before the call by more than 0.001 * |best_value|, and as a
\* failure otherwise; a success adds one to success_counter, a failure adds
\* one to failure_counter, before any reset by a resize, and the other
\* counter is not incremented.
C14_OneCounterPerCall == [][C14_Counts]_vars

\* a first call from best value 1000 that offers 1001, exactly the margin,
\* and is counted as a failure
C14_Witness ==
    /\ Called /\ b0 = Fin(1000) /\ seen = {Fin(1001)}
    /\ last.counted = "failure" /\ last.after_count = <<0, 1>>
    /\ state.best_value = Fin(1001)

C15_Expands ==
    LET third == /\ Exceeds(last'.Y_next, state.best_value)
                 /\ state.success_counter + 1 = 3
    IN  /\ state.success_tolerance = 3
        /\ third <=> last'.resized = "expand"
        /\ third => state'.length =
                        RMin(RMul(Rat(2, 1), state.length), state.length_max)
        /\ ~third => RLe(state'.length, state.length)

\* C15: on the call that makes the third success in a row since the start
\* or the last expansion, and on no other call, the region expands: length
\* becomes min(2 * length, length_max); on every other call length does not
\* increase.
C15_ExpandsOnThirdSuccess == [][C15_Expands]_vars

\* an expansion from length_max, where the doubled length is cut back
C15_Witness ==
    /\ Called /\ last.resized = "expand"
    /\ last.length_before = Rat(16, 10)
    /\ state.length = state.length_max
    /\ state.success_counter = 0

C16_Shrinks ==
    LET nth == /\ ~Exceeds(last'.Y_next, state.best_value)
               /\ state.failure_counter + 1 = state.failure_tolerance
    IN  /\ nth <=> last'.resized = "shrink"
        /\ nth => state'.length = RDiv(state.length, Rat(2, 1))
        /\ ~nth => RLe(state.length, state'.length)

\* C16: on the call that makes the failure_tolerance-th failure in a row
\* since the start or the last shrink, and on no other call, the region
\* shrinks: length is halved; on every other call length does not decrease.
C16_ShrinksOnNthFailure == [][C16_Shrinks]_vars

\* the eighth failure in a row of an eight-dimensional function halves 0.8
C16_Witness ==
    /\ Called /\ last.resized = "shrink"
    /\ state.failure_tolerance = 8
    /\ last.after_count = <<0, 8>>
    /\ last.length_before = Rat(8, 10)
    /\ state.length = Rat(4, 10)

----------------------------------------------------------------------------
(* Construction *)

MaxDim == 8
MaxBatch == 4

\* values given for failure_tolerance: the default and three integers
GivenTolerances == {NaN, Fin(0), Fin(3), Fin(100)}

\* state = TurboState(dim = 6), as in the notebook
ConstructInit ==
    /\ state = TurboState(6, 1, NaN, NegInf)
    /\ TurboIdle
    /\ DriverIdle
    /\ FarIdle

\* state = TurboState(dim, batch_size, failure_tolerance = ft)
Construct ==
    \E dim \in 1..MaxDim, batch_size \in 1..MaxBatch, ft \in GivenTolerances :
        /\ state' = TurboState(dim, batch_size, ft, NegInf)
        /\ kwargs' = Given(dim, batch_size, ft)
        /\ UNCHANGED <<ret, last, b0, seen, everBelow, drivervars, farvars>>

ConstructNext == Construct

SpecConstruct == ConstructInit /\ [][ConstructNext]_vars

\* C17: after construction failure_tolerance is the least integer n with
\* n * batch_size >= max(4, dim), that is ceil(max(4 / batch_size,
\* dim / batch_size)), whatever value was given for it; with batch size 1
\* it is max(4, dim), 6 for dim 6 and 4 for dims 2, 3 and 4; the other
\* fields have their defaults.
C17_FailureTolerance ==
    LET most == IF kwargs.dim > 4 THEN kwargs.dim ELSE 4
        n == state.failure_tolerance
    IN  /\ state.dim = kwargs.dim
        /\ state.batch_size = kwargs.batch_size
        /\ n \in Nat
        /\ n * kwargs.batch_size >= most
        /\ (n - 1) * kwargs.batch_size < most
        /\ kwargs.batch_size = 1 => n = most
        /\ (kwargs.batch_size = 1 /\ kwargs.dim = 6) => n = 6
        /\ (kwargs.batch_size = 1 /\ kwargs.dim \in {2, 3, 4}) => n = 4
        /\ state.length = Rat(8, 10)
        /\ state.length_min = Rat(78125, 10000000)
        /\ state.length_max = Rat(16, 10)
        /\ state.success_counter = 0
        /\ state.failure_counter = 0
        /\ state.success_tolerance = 3
        /\ state.restart_triggered = FALSE

\* seven dimensions in batches of two, with a tolerance of 100 given:
\* ceil(3.5) = 4
C17_Witness ==
    /\ kwargs = Given(7, 2, Fin(100))
    /\ state.failure_tolerance = 4

----------------------------------------------------------------------------
(* generate_batch called with any acquisition function *)

\* "ts", "ei", "ucb", "", "t", "s", "st", "TS"
AcqfValues ==
    {ts, <<"e", "i">>, <<"u", "c", "b">>, <<>>, <<"t">>, <<"s">>,
     <<"s", "t">>, <<"T", "S">>}

\* one evaluated point of one of the eight functions, and a fresh state
BatchInit ==
    /\ \E fn \in functions :
          /\ i = fn
          /\ state = TurboState(dimensions[fn], 1, NaN, NegInf)
          /\ \E row \in FileRows(dimensions[fn]), y \in FileY :
                train_x = <<row>> /\ train_y = <<y>>
    /\ TurboIdle
    /\ FarIdle
    /\ pc = "call"
    /\ train_x_2 = <<>> /\ train_y_2 = <<>>
    /\ x_new = <<>> /\ y_new = <<>> /\ next_query = <<>>
    /\ gb = NoBatch /\ printed = <<>>

\* generate_batch(state, model, train_x, train_y, acqf = acqf)
GenerateBatch ==
    /\ pc = "call"
    /\ \E acqf \in AcqfValues,
          pert \in [CandIdx(train_x) -> SobolRows(dim_i)],
          mask \in Masks(CandIdx(train_x), dim_i),
          idx \in CandIdx(train_x) :
          gb' = generate_batch(state, ExactGPModel(train_x, train_y),
                               train_x, train_y, acqf, pert, mask, idx)
    /\ UNCHANGED <<state, turbovars, farvars, pc, i, train_x, train_y,
                   train_x_2, train_y_2, x_new, y_new, next_query, printed>>

BatchNext == GenerateBatch

SpecBatch == BatchInit /\ [][BatchNext]_vars

\* C18: a call with an acqf other than "ts" fails at the assertion of line
\* 182, and a call that passes that assertion returns with X_next assigned.
C18_OnlyThompson ==
    gb.status # "none" =>
        /\ gb.acqf # ts => gb.status = "AssertionError" /\ gb.raised_at = 182
        /\ gb.raised_at # 182 => gb.status = "ok" /\ Len(gb.X_next) = dim_i

====
